---- MODULE Spec2Model ----
(***************************************************************************)
(* Synapse backend (FastAPI + SQLAlchemy): the impact engine that turns    *)
(* feedback into reputation, and the handlers that write the database.      *)
(*                                                                         *)
(* Nine specifications share the variables below:                          *)
(*   ImpactFnSpec  the pure functions of services/impact.py applied to     *)
(*                 bounded inputs;                                         *)
(*   Spec          the request handlers, one request handled at a time     *)
(*                 (each action is a whole handler inside get_session);     *)
(*   ConcSpec      two feedback submissions in flight at once, each in its *)
(*                 own session, interleaved at their awaits;               *)
(*   FocusSpec     focus session requests in flight at once;               *)
(*   WsSpec        websockets connecting, sending and disconnecting;       *)
(*   ProfileSpec   the handlers that write a profile, with several goals;  *)
(*   MatchSpec     the matching queries answered from a stored population  *)
(*                 of profiles;                                            *)
(*   FeedSpec      the feed queries answered from stored posts;            *)
(*   EngineFnSpec  the similarity functions and the H3 wrappers applied to *)
(*                 bounded inputs.                                         *)
(***************************************************************************)
EXTENDS Integers, Sequences, FiniteSets, TLC

VARIABLES
    users,          \* table users: id = index, User rows
    posts,          \* table posts: id = index, Post rows
    interactions,   \* table interactions: id = index, Interaction rows
    focus_sessions, \* table focus_sessions: id = index, FocusSession rows
    clock,          \* datetime.utcnow(), a logical time
    analyzer,       \* the analyzer ImpactService was constructed with
    resp,           \* the response of the request handled last
    reqs,           \* ConcSpec: the requests in flight, by slot
    fx              \* the function or query under test and its result

vars == <<users, posts, interactions, focus_sessions, clock, analyzer, resp, reqs, fx>>

None == "None"

\* pgvector NULL
NoVector == <<>>

(***************************************************************************)
(* Bounds                                                                  *)
(***************************************************************************)
MaxRuns == 3
MaxPad == 2
MaxLen == 203
MaxUsers == 2
MaxPosts == 2
MaxInteractions == 2
MaxFocus == 1
MaxClock == 4
MaxReqs == 2
MaxProfiles == 5
MaxFeedPosts == 3
MaxCoord == 4
MaxRings == 2
MaxConcFocus == 2
MaxSockets == 2
MaxMsgs == 1

(***************************************************************************)
(* Feedback text.  A text is a sequence of runs, a run being a phrase      *)
(* repeated n times; phrases are separated by one space and the text may   *)
(* carry pad whitespace characters around it.  A phrase is its sequence of   *)
(* characters.  No keyword of the analyzer straddles two phrases of this   *)
(* vocabulary, so a keyword occurs in a text iff it occurs in one of its    *)
(* phrases.                                                                *)
(***************************************************************************)
P_try == <<"t","r","y">>
P_could == <<"c","o","u","l","d">>
P_Improve == <<"I","m","p","r","o","v","e">>
P_great == <<"g","r","e","a","t">>
P_good_job == <<"g","o","o","d"," ","j","o","b">>
P_word == <<"w","o","r","d">>

Vocabulary == {P_try, P_could, P_Improve, P_great, P_good_job, P_word}

Reps == {1, 14}

Runs == [p : Vocabulary, n : Reps]

SeqUpTo(S, k) == UNION {[1..m -> S] : m \in 0..k}

Texts == [runs : SeqUpTo(Runs, MaxRuns), pad : 0..MaxPad]

UpperAlpha == <<"A","B","C","D","E","F","G","H","I","J","K","L","M",
                "N","O","P","Q","R","S","T","U","V","W","X","Y","Z">>
LowerAlpha == <<"a","b","c","d","e","f","g","h","i","j","k","l","m",
                "n","o","p","q","r","s","t","u","v","w","x","y","z">>

\* str.lower() on one character
LowerChar(ch) ==
    IF \E i \in 1..26 : UpperAlpha[i] = ch
    THEN LowerAlpha[CHOOSE i \in 1..26 : UpperAlpha[i] = ch]
    ELSE ch

\* feedback.lower().strip(): every character lowered, the padding removed
lower_strip(t) ==
    [runs |-> [i \in DOMAIN t.runs |->
                  [p |-> [j \in DOMAIN t.runs[i].p |-> LowerChar(t.runs[i].p[j])],
                   n |-> t.runs[i].n]],
     pad |-> 0]

RECURSIVE SumSeq(_)
SumSeq(s) == IF Len(s) = 0 THEN 0 ELSE Head(s) + SumSeq(Tail(s))

PhraseWords(p) == 1 + Cardinality({j \in DOMAIN p : p[j] = " "})

\* the characters of the phrases, the phrases, the words of a text
TextChars(t) == SumSeq([i \in DOMAIN t.runs |-> t.runs[i].n * Len(t.runs[i].p)])
TextPhrases(t) == SumSeq([i \in DOMAIN t.runs |-> t.runs[i].n])
TextWords(t) == SumSeq([i \in DOMAIN t.runs |-> t.runs[i].n * PhraseWords(t.runs[i].p)])

\* len(s): the phrases, one space between neighbours, and the padding
len(t) ==
    IF Len(t.runs) = 0 THEN t.pad
    ELSE TextChars(t) + (TextPhrases(t) - 1) + t.pad

\* len(s.split())
split_len(t) == TextWords(t)

\* k in s, for character sequences
IsSubstring(k, s) ==
    \E i \in 1..(Len(s) - Len(k) + 1) : SubSeq(s, i, i + Len(k) - 1) = k

\* keyword in feedback_lower
KeywordIn(k, t) == \E i \in DOMAIN t.runs : IsSubstring(k, t.runs[i].p)

CONSTRUCTIVE_KEYWORDS ==
    { <<"s","u","g","g","e","s","t">>,
      <<"i","m","p","r","o","v","e">>,
      <<"b","e","c","a","u","s","e">>,
      <<"c","o","n","s","i","d","e","r">>,
      <<"w","o","u","l","d"," ","b","e"," ","b","e","t","t","e","r">>,
      <<"c","o","u","l","d">>,
      <<"s","h","o","u","l","d">>,
      <<"r","e","c","o","m","m","e","n","d">>,
      <<"s","p","e","c","i","f","i","c","a","l","l","y">>,
      <<"e","x","a","m","p","l","e">>,
      <<"h","o","w","e","v","e","r">>,
      <<"a","l","t","e","r","n","a","t","i","v","e","l","y">>,
      <<"i","n","s","t","e","a","d">>,
      <<"t","r","y">>,
      <<"n","e","x","t"," ","t","i","m","e">> }

NON_CONSTRUCTIVE_PATTERNS ==
    { <<"g","o","o","d"," ","j","o","b">>,
      <<"n","i","c","e"," ","w","o","r","k">>,
      <<"g","r","e","a","t">>,
      <<"a","w","e","s","o","m","e">>,
      <<"c","o","o","l">>,
      <<"o","k">>,
      <<"f","i","n","e">>,
      <<"b","a","d">>,
      <<"t","e","r","r","i","b","l","e">>,
      <<"s","u","c","k","s">> }

\* sum(1 for keyword in CONSTRUCTIVE_KEYWORDS if keyword in feedback_lower)
constructive_count(fl) == Cardinality({k \in CONSTRUCTIVE_KEYWORDS : KeywordIn(k, fl)})

\* sum(1 for pattern in NON_CONSTRUCTIVE_PATTERNS if pattern in feedback_lower)
non_constructive_count(fl) == Cardinality({k \in NON_CONSTRUCTIVE_PATTERNS : KeywordIn(k, fl)})

MinFeedbackLen == 20
MinDetailWords == 15
BonusLen == 200

Verdict(b, why) == [is_constructive |-> b, reason |-> why]

\* RuleBasedFeedbackAnalyzer.analyze
RuleAnalyze_keywords_first(feedback) ==
    LET feedback_lower == lower_strip(feedback)
        c == constructive_count(feedback_lower)
        g == non_constructive_count(feedback_lower)
    IN  IF c >= 2
        THEN Verdict(TRUE, "Feedback contains constructive suggestions")
        ELSE IF len(feedback_lower) < MinFeedbackLen
        THEN Verdict(FALSE, "Feedback is too short to be constructive")
        ELSE IF c >= 1 /\ g = 0
        THEN Verdict(TRUE, "Feedback shows constructive intent")
        ELSE IF g > c
        THEN Verdict(FALSE, "Feedback appears to be generic praise or criticism")
        ELSE IF split_len(feedback_lower) >= MinDetailWords
        THEN Verdict(TRUE, "Feedback is detailed enough to be constructive")
        ELSE Verdict(FALSE, "Feedback lacks specific actionable suggestions")

RuleAnalyze_praise_ties(feedback) ==
    LET feedback_lower == lower_strip(feedback)
        c == constructive_count(feedback_lower)
        g == non_constructive_count(feedback_lower)
    IN  IF len(feedback_lower) < MinFeedbackLen
        THEN Verdict(FALSE, "Feedback is too short to be constructive")
        ELSE IF c >= 2
        THEN Verdict(TRUE, "Feedback contains constructive suggestions")
        ELSE IF c >= 1 /\ g = 0
        THEN Verdict(TRUE, "Feedback shows constructive intent")
        ELSE IF g >= c
        THEN Verdict(FALSE, "Feedback appears to be generic praise or criticism")
        ELSE IF split_len(feedback_lower) >= MinDetailWords
        THEN Verdict(TRUE, "Feedback is detailed enough to be constructive")
        ELSE Verdict(FALSE, "Feedback lacks specific actionable suggestions")
RuleAnalyze(feedback) ==
    LET feedback_lower == lower_strip(feedback)
        c == constructive_count(feedback_lower)
        g == non_constructive_count(feedback_lower)
    IN  IF len(feedback_lower) < MinFeedbackLen
        THEN Verdict(FALSE, "Feedback is too short to be constructive")
        ELSE IF c >= 2
        THEN Verdict(TRUE, "Feedback contains constructive suggestions")
        ELSE IF c >= 1 /\ g = 0
        THEN Verdict(TRUE, "Feedback shows constructive intent")
        ELSE IF g > c
        THEN Verdict(FALSE, "Feedback appears to be generic praise or criticism")
        ELSE IF split_len(feedback_lower) >= MinDetailWords
        THEN Verdict(TRUE, "Feedback is detailed enough to be constructive")
        ELSE Verdict(FALSE, "Feedback lacks specific actionable suggestions")

\* LLMFeedbackAnalyzer.analyze: the model's answer, or the except branch
LLMOutcomes == {"true", "false", "error"}
LLMAnalyze_trusting(outcome) ==
    CASE outcome = "true" -> Verdict(TRUE, "model")
      [] outcome = "false" -> Verdict(FALSE, "model")
      [] OTHER -> Verdict(TRUE, "Analysis failed")
LLMAnalyze(outcome) ==
    CASE outcome = "true" -> Verdict(TRUE, "model")
      [] outcome = "false" -> Verdict(FALSE, "model")
      [] OTHER -> Verdict(FALSE, "Analysis failed")

calculate_impact_points_bonus_at_200(is_constructive, feedback_length) ==
    IF ~is_constructive THEN 0
    ELSE IF feedback_length >= BonusLen THEN 2
    ELSE 1
calculate_impact_points(is_constructive, feedback_length) ==
    IF ~is_constructive THEN 0
    ELSE IF feedback_length > BonusLen THEN 2
    ELSE 1

(***************************************************************************)
(* The database.  A nullable boolean or text column holds Null or          *)
(* Some(v); a nullable string column holds None or the string.             *)
(***************************************************************************)
Null == {}
Some(v) == {v}

Goals == {"g1"}
Bios == {"b1"}
Contents == {"p1"}
Cells == {"c1"}

\* EmbeddingService.embed_text: the embedding of a text
embed_text(text) ==
    CASE text = "g1" -> <<1, 0>>
      [] text \in {"g2", "p2"} -> <<3, 4>>
      [] text \in {"g3", "p3"} -> <<4, 3>>
      [] text = "g4" -> <<-3, -4>>
      [] OTHER -> <<0, 1>>

\* LocationService.calculate_h3_index: the cell of a coordinate
calculate_h3_index(coord) == coord

F_short == [runs |-> <<[p |-> P_could, n |-> 1], [p |-> P_try, n |-> 1]>>, pad |-> 0]
F_generic == [runs |-> <<[p |-> P_great, n |-> 1], [p |-> P_word, n |-> 14]>>, pad |-> 0]
F_good == [runs |-> <<[p |-> P_could, n |-> 1], [p |-> P_try, n |-> 1],
                     [p |-> P_word, n |-> 14]>>, pad |-> 0]
F_long == [runs |-> <<[p |-> P_could, n |-> 1], [p |-> P_try, n |-> 1],
                     [p |-> P_word, n |-> 40]>>, pad |-> 0]

\* the feedback texts the requests of Spec and ConcSpec carry
Feedbacks == {F_short, F_generic, F_good, F_long}

\* RuleBasedFeedbackAnalyzer.analyze on the request texts, computed once
RuleVerdicts == [t \in Feedbacks |-> RuleAnalyze(t)]

\* ImpactService.analyze_feedback
analyze_feedback(kind, feedback, outcome) ==
    IF kind = "llm" THEN LLMAnalyze(outcome)
    ELSE IF feedback \in DOMAIN RuleVerdicts THEN RuleVerdicts[feedback]
    ELSE RuleAnalyze(feedback)

\* ImpactService.calculate_impact_points
\* models.User (default impact_score = 0)
User(bio) ==
    [bio |-> bio, current_goal |-> None, bio_vector |-> NoVector,
     h3_index |-> None, impact_score |-> 0]

\* models.Post (default impact_count = 0)
Post(author_id, content, content_vector, now) ==
    [author_id |-> author_id, content |-> content, content_vector |-> content_vector,
     impact_count |-> 0, created_at |-> now]

\* models.Interaction
Interaction(from_user_id, to_user_id, type, feedback_content, is_constructive, now) ==
    [from_user_id |-> from_user_id, to_user_id |-> to_user_id, type |-> type,
     feedback_content |-> feedback_content, is_constructive |-> is_constructive,
     created_at |-> now]

\* models.FocusSession (default is_active = True)
FocusSession(user_id, goal, now) ==
    [user_id |-> user_id, goal |-> goal, start_time |-> now, end_time |-> -1,
     duration_minutes |-> -1, is_active |-> TRUE]

\* the JSON response of a handler, and the facts of its run the claims read
Response(op, status) ==
    [op |-> op, status |-> status, post_id |-> 0,
     analyzed |-> FALSE, is_constructive |-> FALSE, reason |-> "",
     impact_points |-> 0]


DbInit ==
    /\ users = <<>>
    /\ posts = <<>>
    /\ interactions = <<>>
    /\ focus_sessions = <<>>
    /\ clock = 0
    /\ analyzer \in {"rule", "llm"}
    /\ resp = Response("none", 0)

NoFx ==
    [fn |-> "none", feedback |-> F_short, is_constructive |-> FALSE,
     feedback_length |-> 0, done |-> FALSE, ret_verdict |-> Verdict(FALSE, ""),
     ret_points |-> 0]

Init ==
    /\ DbInit
    /\ reqs = <<>>
    /\ fx = NoFx

\* get_session: the handler returned and the session commits; the commit is the
\* next instant of the logical time (updated_at, created_at read utcnow)
Commit ==
    /\ clock < MaxClock
    /\ clock' = clock + 1

\* get_session: the handler raised, the session rolls back and nothing is written
Rollback(r) ==
    /\ clock < MaxClock
    /\ resp' = r
    /\ UNCHANGED <<users, posts, interactions, focus_sessions, clock, analyzer, reqs, fx>>

\* api/auth.py register
register(bio) ==
    /\ Len(users) < MaxUsers
    /\ users' = Append(users, User(bio))
    /\ resp' = Response("register", 201)
    /\ Commit
    /\ UNCHANGED <<posts, interactions, focus_sessions, analyzer, reqs, fx>>

\* api/users.py update_profile
update_profile(u, bio) ==
    /\ u \in DOMAIN users
    /\ users' = [users EXCEPT ![u].bio = bio]
    /\ resp' = Response("update_profile", 200)
    /\ Commit
    /\ UNCHANGED <<posts, interactions, focus_sessions, analyzer, reqs, fx>>

sync_goal_first_vector(u, goal, embedded) ==
    /\ u \in DOMAIN users
    /\ IF ~embedded
       THEN Rollback(Response("sync_goal", 500))
       ELSE /\ users' = [users EXCEPT ![u].current_goal = goal,
                                      ![u].bio_vector =
                                          IF users[u].bio_vector = NoVector
                                          THEN embed_text(goal)
                                          ELSE users[u].bio_vector]
            /\ resp' = Response("sync_goal", 200)
            /\ Commit
            /\ UNCHANGED <<posts, interactions, focus_sessions, analyzer, reqs, fx>>

\* api/users.py sync_goal; embedded = FALSE when embed_text raises
sync_goal(u, goal, embedded) ==
    /\ u \in DOMAIN users
    /\ IF ~embedded
       THEN Rollback(Response("sync_goal", 500))
       ELSE /\ users' = [users EXCEPT ![u].current_goal = goal,
                                      ![u].bio_vector = embed_text(goal)]
            /\ resp' = Response("sync_goal", 200)
            /\ Commit
            /\ UNCHANGED <<posts, interactions, focus_sessions, analyzer, reqs, fx>>

\* api/users.py update_location, LocationService.update_user_location
update_location(u, coord) ==
    /\ u \in DOMAIN users
    /\ users' = [users EXCEPT ![u].h3_index = calculate_h3_index(coord)]
    /\ resp' = Response("update_location", 200)
    /\ Commit
    /\ UNCHANGED <<posts, interactions, focus_sessions, analyzer, reqs, fx>>

\* api/feed.py create_post; embedded = FALSE when embed_text raises
create_post(u, content, embedded) ==
    /\ u \in DOMAIN users
    /\ IF ~embedded
       THEN Rollback(Response("create_post", 500))
       ELSE /\ Len(posts) < MaxPosts
            /\ posts' = Append(posts, Post(u, content, embed_text(content), clock))
            /\ Commit
            /\ resp' = [Response("create_post", 201) EXCEPT !.post_id = Len(posts) + 1]
            /\ UNCHANGED <<users, interactions, focus_sessions, analyzer, reqs, fx>>

\* schemas.ImpactRequest: feedback_content has min_length=10, max_length=1000
ImpactMinLen == 10
ImpactMaxLen == 1000
ImpactRequestValid(feedback) == len(feedback) >= ImpactMinLen /\ len(feedback) <= ImpactMaxLen

\* what the analyzer in use may answer for a call
Outcomes == IF analyzer = "llm" THEN LLMOutcomes ELSE {"rule"}

\* give_impact, "Update target user's impact score"
GiveImpactScore_assign(target_user, impact_points) ==
    IF impact_points > 0
    THEN [target_user EXCEPT !.impact_score = impact_points]
    ELSE target_user
GiveImpactScore(target_user, impact_points) ==
    IF impact_points > 0
    THEN [target_user EXCEPT !.impact_score = @ + impact_points]
    ELSE target_user

\* impact_post, "Update author's impact score and post's impact count": the author
ImpactPostAuthor_one_point(author, impact_points) ==
    IF impact_points > 0
    THEN [author EXCEPT !.impact_score = @ + 1]
    ELSE author
ImpactPostAuthor(author, impact_points) ==
    IF impact_points > 0
    THEN [author EXCEPT !.impact_score = @ + impact_points]
    ELSE author

\* impact_post, "Update author's impact score and post's impact count": the post
ImpactPostPost_always(post, impact_points) ==
    [post EXCEPT !.impact_count = @ + 1]
ImpactPostPost(post, impact_points) ==
    IF impact_points > 0
    THEN [post EXCEPT !.impact_count = @ + 1]
    ELSE post

\* give_impact, "Prevent self-impact"
GiveImpactIsSelf_unchecked(to_user_id, current_user_id) == FALSE
GiveImpactIsSelf(to_user_id, current_user_id) == to_user_id = current_user_id

\* impact_post, "Prevent self-impact"
ImpactPostIsSelf_unchecked(post, current_user_id) == FALSE
ImpactPostIsSelf(post, current_user_id) == post.author_id = current_user_id

\* api/matching.py give_impact
give_impact_overwrite(u, to_user_id, feedback) ==
    /\ u \in DOMAIN users
    /\ LET r == Response("give_impact", 201)
       IN  IF ~ImpactRequestValid(feedback)
           THEN Rollback([r EXCEPT !.status = 422])
           ELSE IF GiveImpactIsSelf(to_user_id, u)
           THEN Rollback([r EXCEPT !.status = 400])
           ELSE IF to_user_id \notin DOMAIN users
           THEN Rollback([r EXCEPT !.status = 404])
           ELSE \E outcome \in Outcomes :
                LET verdict == analyze_feedback(analyzer, feedback, outcome)
                    impact_points ==
                        calculate_impact_points(verdict.is_constructive, len(feedback))
                    row == Interaction(u, to_user_id, "impact", Some(feedback),
                                       Some(verdict.is_constructive), clock)
                    same == {i \in DOMAIN interactions :
                                /\ interactions[i].from_user_id = u
                                /\ interactions[i].to_user_id = to_user_id
                                /\ interactions[i].type = "impact"}
                IN  /\ Len(interactions) < MaxInteractions
                    /\ users' = [users EXCEPT
                                   ![to_user_id] = GiveImpactScore(@, impact_points)]
                    /\ interactions' =
                         IF same = {} THEN Append(interactions, row)
                         ELSE [i \in DOMAIN interactions |->
                                 IF i \in same THEN row ELSE interactions[i]]
                    /\ Commit
                    /\ resp' = [r EXCEPT !.analyzed = TRUE,
                                         !.is_constructive = verdict.is_constructive,
                                         !.reason = verdict.reason,
                                         !.impact_points = impact_points]
                    /\ UNCHANGED <<posts, focus_sessions, analyzer, reqs, fx>>
give_impact(u, to_user_id, feedback) ==
    /\ u \in DOMAIN users
    /\ LET r == Response("give_impact", 201)
       IN  IF ~ImpactRequestValid(feedback)
           THEN Rollback([r EXCEPT !.status = 422])
           ELSE IF GiveImpactIsSelf(to_user_id, u)
           THEN Rollback([r EXCEPT !.status = 400])
           ELSE IF to_user_id \notin DOMAIN users
           THEN Rollback([r EXCEPT !.status = 404])
           ELSE \E outcome \in Outcomes :
                LET verdict == analyze_feedback(analyzer, feedback, outcome)
                    impact_points ==
                        calculate_impact_points(verdict.is_constructive, len(feedback))
                IN  /\ Len(interactions) < MaxInteractions
                    /\ users' = [users EXCEPT
                                   ![to_user_id] = GiveImpactScore(@, impact_points)]
                    /\ interactions' = Append(interactions,
                           Interaction(u, to_user_id, "impact", Some(feedback),
                                       Some(verdict.is_constructive), clock))
                    /\ Commit
                    /\ resp' = [r EXCEPT !.analyzed = TRUE,
                                         !.is_constructive = verdict.is_constructive,
                                         !.reason = verdict.reason,
                                         !.impact_points = impact_points]
                    /\ UNCHANGED <<posts, focus_sessions, analyzer, reqs, fx>>

\* api/feed.py impact_post
impact_post(u, post_id, feedback) ==
    /\ u \in DOMAIN users
    /\ LET r == [Response("impact_post", 201) EXCEPT !.post_id = post_id]
       IN  IF post_id \notin DOMAIN posts
           THEN Rollback([r EXCEPT !.status = 404])
           ELSE IF ImpactPostIsSelf(posts[post_id], u)
           THEN Rollback([r EXCEPT !.status = 400])
           ELSE IF posts[post_id].author_id \notin DOMAIN users
           THEN Rollback([r EXCEPT !.status = 404])
           ELSE \E outcome \in Outcomes :
                LET author_id == posts[post_id].author_id
                    verdict == analyze_feedback(analyzer, feedback, outcome)
                    impact_points ==
                        calculate_impact_points(verdict.is_constructive, len(feedback))
                IN  /\ Len(interactions) < MaxInteractions
                    /\ users' = [users EXCEPT
                                   ![author_id] = ImpactPostAuthor(@, impact_points)]
                    /\ posts' = [posts EXCEPT
                                   ![post_id] = ImpactPostPost(@, impact_points)]
                    /\ interactions' = Append(interactions,
                           Interaction(u, author_id, "impact", Some(feedback),
                                       Some(verdict.is_constructive), clock))
                    /\ Commit
                    /\ resp' = [r EXCEPT !.analyzed = TRUE,
                                         !.is_constructive = verdict.is_constructive,
                                         !.reason = verdict.reason,
                                         !.impact_points = impact_points]
                    /\ UNCHANGED <<focus_sessions, analyzer, reqs, fx>>

\* api/matching.py request_connection
request_connection_scores(u, to_user_id) ==
    /\ u \in DOMAIN users
    /\ LET r == Response("request_connection", 201)
       IN  IF to_user_id = u
           THEN Rollback([r EXCEPT !.status = 400])
           ELSE IF to_user_id \notin DOMAIN users
           THEN Rollback([r EXCEPT !.status = 404])
           ELSE IF \E i \in DOMAIN interactions :
                      /\ interactions[i].from_user_id = u
                      /\ interactions[i].to_user_id = to_user_id
                      /\ interactions[i].type = "connect"
           THEN Rollback([r EXCEPT !.status = 400])
           ELSE /\ Len(interactions) < MaxInteractions
                /\ users' = [users EXCEPT ![to_user_id] = GiveImpactScore(@, 1)]
                /\ interactions' = Append(interactions,
                       Interaction(u, to_user_id, "connect", Null, Null, clock))
                /\ Commit
                /\ resp' = r
                /\ UNCHANGED <<posts, focus_sessions, analyzer, reqs, fx>>
request_connection(u, to_user_id) ==
    /\ u \in DOMAIN users
    /\ LET r == Response("request_connection", 201)
       IN  IF to_user_id = u
           THEN Rollback([r EXCEPT !.status = 400])
           ELSE IF to_user_id \notin DOMAIN users
           THEN Rollback([r EXCEPT !.status = 404])
           ELSE IF \E i \in DOMAIN interactions :
                      /\ interactions[i].from_user_id = u
                      /\ interactions[i].to_user_id = to_user_id
                      /\ interactions[i].type = "connect"
           THEN Rollback([r EXCEPT !.status = 400])
           ELSE /\ Len(interactions) < MaxInteractions
                /\ interactions' = Append(interactions,
                       Interaction(u, to_user_id, "connect", Null, Null, clock))
                /\ Commit
                /\ resp' = r
                /\ UNCHANGED <<users, posts, focus_sessions, analyzer, reqs, fx>>

\* the rows select(FocusSession).where(user_id == u, is_active == True) returns
ActiveSessions(u) ==
    {i \in DOMAIN focus_sessions :
        focus_sessions[i].user_id = u /\ focus_sessions[i].is_active}

\* api/users.py start_focus_session
start_focus_session(u, goal) ==
    /\ u \in DOMAIN users
    /\ IF ActiveSessions(u) # {}
       THEN Rollback(Response("start_focus_session", 400))
       ELSE /\ Len(focus_sessions) < MaxFocus
            /\ focus_sessions' = Append(focus_sessions, FocusSession(u, goal, clock))
            /\ Commit
            /\ resp' = Response("start_focus_session", 201)
            /\ UNCHANGED <<users, posts, interactions, analyzer, reqs, fx>>

\* api/users.py end_focus_session
end_focus_session(u) ==
    /\ u \in DOMAIN users
    /\ IF ActiveSessions(u) = {}
       THEN Rollback(Response("end_focus_session", 404))
       ELSE /\ Cardinality(ActiveSessions(u)) = 1
            /\ LET i == CHOOSE j \in ActiveSessions(u) : TRUE
               IN  focus_sessions' = [focus_sessions EXCEPT
                       ![i].is_active = FALSE,
                       ![i].end_time = clock,
                       ![i].duration_minutes = clock - focus_sessions[i].start_time]
            /\ resp' = Response("end_focus_session", 200)
            /\ Commit
            /\ UNCHANGED <<users, posts, interactions, analyzer, reqs, fx>>

UserIds == 1..MaxUsers
PostIds == 1..MaxPosts

Next ==
    \/ \E bio \in {None} : register(bio)
    \/ \E u \in UserIds, bio \in Bios : update_profile(u, bio)
    \/ \E u \in UserIds, goal \in Goals, embedded \in BOOLEAN : sync_goal(u, goal, embedded)
    \/ \E u \in UserIds, coord \in Cells : update_location(u, coord)
    \/ \E u \in UserIds, content \in Contents, embedded \in BOOLEAN :
          create_post(u, content, embedded)
    \/ \E u \in UserIds, to \in UserIds \cup {MaxUsers + 1}, feedback \in Feedbacks :
          give_impact(u, to, feedback)
    \/ \E u \in UserIds, post_id \in PostIds \cup {MaxPosts + 1}, feedback \in Feedbacks :
          impact_post(u, post_id, feedback)
    \/ \E u \in UserIds, to \in UserIds \cup {MaxUsers + 1} : request_connection(u, to)
    \/ \E u \in UserIds, goal \in Goals : start_focus_session(u, goal)
    \/ \E u \in UserIds : end_focus_session(u)

Spec == Init /\ [][Next]_vars

(***************************************************************************)
(* ImpactFnSpec: analyze and calculate_impact_points on bounded inputs.    *)
(***************************************************************************)
FnInputs ==
    {[NoFx EXCEPT !.fn = "analyze", !.feedback = t] : t \in Texts}
    \cup {[NoFx EXCEPT !.fn = "calculate_impact_points", !.is_constructive = b,
                       !.feedback_length = n] : b \in BOOLEAN, n \in 0..MaxLen}

FnInit ==
    /\ DbInit
    /\ analyzer = "rule"
    /\ reqs = <<>>
    /\ fx \in FnInputs

ApplyAnalyze ==
    /\ fx.fn = "analyze" /\ ~fx.done
    /\ fx' = [fx EXCEPT !.done = TRUE, !.ret_verdict = RuleAnalyze(fx.feedback)]
    /\ UNCHANGED <<users, posts, interactions, focus_sessions, clock, analyzer, resp, reqs>>

ApplyPoints ==
    /\ fx.fn = "calculate_impact_points" /\ ~fx.done
    /\ fx' = [fx EXCEPT !.done = TRUE,
                        !.ret_points = calculate_impact_points(fx.is_constructive,
                                                               fx.feedback_length)]
    /\ UNCHANGED <<users, posts, interactions, focus_sessions, clock, analyzer, resp, reqs>>

FnNext == ApplyAnalyze \/ ApplyPoints

ImpactFnSpec == FnInit /\ [][FnNext]_vars

(***************************************************************************)
(* ConcSpec: feedback submissions in flight at once.  Every request has    *)
(* its own AsyncSession (get_session); a SELECT reads the committed rows   *)
(* into the session, the handler changes the loaded objects in memory, and *)
(* flush() followed by commit() writes the changed columns with the values *)
(* held in memory.  A request yields at each await.                        *)
(***************************************************************************)
Slots == 1..MaxReqs

IdleRequest ==
    [pc |-> "idle", op |-> "none", user |-> 0, arg |-> 0, feedback |-> F_short,
     post |-> Post(0, "", NoVector, 0), target |-> User(None),
     is_constructive |-> FALSE, impact_points |-> 0, status |-> 0]

\* the database the submissions start from: two users, two posts of user 2
ConcInit ==
    /\ users = <<User(None), User(None)>>
    /\ posts = <<Post(2, "p1", embed_text("p1"), 2), Post(2, "p1", embed_text("p1"), 3)>>
    /\ interactions = <<>>
    /\ focus_sessions = <<>>
    /\ clock = 4
    /\ analyzer \in {"rule", "llm"}
    /\ resp = [Response("create_post", 201) EXCEPT !.post_id = 2]
    /\ reqs = [r \in Slots |-> IdleRequest]
    /\ fx = NoFx

ConcFrame == UNCHANGED <<focus_sessions, analyzer, resp, fx>>

\* the request arrives; give_impact validates and checks self-impact before its
\* first await
ConcStart(r, op, u, arg, feedback) ==
    /\ reqs[r].pc = "idle"
    /\ u \in DOMAIN users
    /\ LET q == [reqs[r] EXCEPT !.op = op, !.user = u, !.arg = arg, !.feedback = feedback]
       IN  reqs' = [reqs EXCEPT ![r] =
             IF op = "impact_post"
             THEN [q EXCEPT !.pc = "select_post"]
             ELSE IF ~ImpactRequestValid(feedback)
             THEN [q EXCEPT !.pc = "done", !.status = 422]
             ELSE IF GiveImpactIsSelf(arg, u)
             THEN [q EXCEPT !.pc = "done", !.status = 400]
             ELSE [q EXCEPT !.pc = "select_user"]]
    /\ UNCHANGED <<users, posts, interactions, clock>>
    /\ ConcFrame

\* impact_post: await session.execute(select(Post)), then the self-impact check
ConcSelectPost(r) ==
    /\ reqs[r].pc = "select_post"
    /\ reqs' = [reqs EXCEPT ![r] =
          IF reqs[r].arg \notin DOMAIN posts
          THEN [@ EXCEPT !.pc = "done", !.status = 404]
          ELSE IF ImpactPostIsSelf(posts[reqs[r].arg], reqs[r].user)
          THEN [@ EXCEPT !.pc = "done", !.status = 400]
          ELSE [@ EXCEPT !.pc = "select_user", !.post = posts[reqs[r].arg]]]
    /\ UNCHANGED <<users, posts, interactions, clock>>
    /\ ConcFrame

\* the id of the user a request gives impact to
ConcTargetId(q) == IF q.op = "impact_post" THEN q.post.author_id ELSE q.arg

\* await session.execute(select(User)): the author or the target user
ConcSelectUser(r) ==
    /\ reqs[r].pc = "select_user"
    /\ reqs' = [reqs EXCEPT ![r] =
          IF ConcTargetId(reqs[r]) \notin DOMAIN users
          THEN [@ EXCEPT !.pc = "done", !.status = 404]
          ELSE [@ EXCEPT !.pc = "analyze", !.target = users[ConcTargetId(reqs[r])]]]
    /\ UNCHANGED <<users, posts, interactions, clock>>
    /\ ConcFrame

\* await analyze_feedback, calculate_impact_points, and the += on the loaded objects
ConcAnalyze(r, outcome) ==
    /\ reqs[r].pc = "analyze"
    /\ LET q == reqs[r]
           verdict == analyze_feedback(analyzer, q.feedback, outcome)
           impact_points ==
               calculate_impact_points(verdict.is_constructive, len(q.feedback))
       IN  reqs' = [reqs EXCEPT ![r] =
             [q EXCEPT !.pc = "flush",
                       !.is_constructive = verdict.is_constructive,
                       !.impact_points = impact_points,
                       !.target = IF q.op = "impact_post"
                                  THEN ImpactPostAuthor(q.target, impact_points)
                                  ELSE GiveImpactScore(q.target, impact_points),
                       !.post = IF q.op = "impact_post"
                                THEN ImpactPostPost(q.post, impact_points)
                                ELSE q.post]]
    /\ UNCHANGED <<users, posts, interactions, clock>>
    /\ ConcFrame

\* await session.flush() and get_session's commit: UPDATE of the columns changed in
\* memory, with the values held in memory, and INSERT of the interaction
ConcFlushCommit(r) ==
    /\ reqs[r].pc = "flush"
    /\ LET q == reqs[r]
           to == ConcTargetId(q)
       IN  /\ users' = IF q.impact_points > 0
                       THEN [users EXCEPT ![to].impact_score = q.target.impact_score]
                       ELSE users
           /\ posts' = IF q.impact_points > 0 /\ q.op = "impact_post"
                       THEN [posts EXCEPT ![q.arg].impact_count = q.post.impact_count]
                       ELSE posts
           /\ interactions' = Append(interactions,
                  Interaction(q.user, to, "impact", Some(q.feedback),
                              Some(q.is_constructive), clock))
           /\ clock' = clock + 1
           /\ reqs' = [reqs EXCEPT ![r] = [q EXCEPT !.pc = "done", !.status = 201]]
    /\ ConcFrame

ConcNext ==
    \/ \E r \in Slots, u \in UserIds, arg \in 1..3, feedback \in Feedbacks :
          \/ ConcStart(r, "give_impact", u, arg, feedback)
          \/ ConcStart(r, "impact_post", u, arg, feedback)
    \/ \E r \in Slots : ConcSelectPost(r)
    \/ \E r \in Slots : ConcSelectUser(r)
    \/ \E r \in Slots, outcome \in Outcomes : ConcAnalyze(r, outcome)
    \/ \E r \in Slots : ConcFlushCommit(r)

ConcSpec == ConcInit /\ [][ConcNext]_vars

(***************************************************************************)
(* Properties                                                              *)
(***************************************************************************)
FeedbackOps == {"give_impact", "impact_post"}

\* the step is a feedback submission that ran to its end
Submitted == resp'.op \in FeedbackOps /\ resp'.status = 201

\* the step appends exactly one interaction and keeps the rows before it
AppendsOne ==
    /\ Len(interactions') = Len(interactions) + 1
    /\ \A i \in DOMAIN interactions : interactions'[i] = interactions[i]

LastInteraction == interactions[Len(interactions)]

ScoresUnchangedExcept(S) ==
    /\ DOMAIN users' = DOMAIN users
    /\ \A v \in DOMAIN users \ S : users'[v].impact_score = users[v].impact_score

CountsUnchangedExcept(S) ==
    /\ DOMAIN posts' = DOMAIN posts
    /\ \A p \in DOMAIN posts \ S : posts'[p].impact_count = posts[p].impact_count

\* C1: calculate_impact_points returns 0 for a verdict that is not constructive,
\* 2 for a constructive one with length > 200, 1 for a constructive one with
\* length <= 200, and nothing else.
Thm_C1 ==
    (fx.fn = "calculate_impact_points" /\ fx.done) =>
        /\ fx.ret_points \in {0, 1, 2}
        /\ ~fx.is_constructive => fx.ret_points = 0
        /\ (fx.is_constructive /\ fx.feedback_length > 200) => fx.ret_points = 2
        /\ (fx.is_constructive /\ fx.feedback_length <= 200) => fx.ret_points = 1

Wit_C1 ==
    /\ fx.fn = "calculate_impact_points" /\ fx.done
    /\ fx.is_constructive /\ fx.feedback_length = 200 /\ fx.ret_points = 1

Thm_C3 ==
    [][(Submitted /\ resp'.impact_points = 0) =>
         /\ AppendsOne
         /\ interactions'[Len(interactions')].type = "impact"
         /\ interactions'[Len(interactions')].is_constructive = Some(FALSE)
         /\ ~resp'.is_constructive
         /\ ScoresUnchangedExcept({})
         /\ CountsUnchangedExcept({})]_vars

Wit_C3 ==
    /\ resp.op = "impact_post" /\ resp.status = 201 /\ resp.impact_points = 0
    /\ Len(interactions) >= 1
    /\ LastInteraction.is_constructive = Some(FALSE)

\* the step is rejected with an error before analyze_feedback is called, and
\* writes nothing
RejectedUnchanged ==
    /\ resp'.status >= 400
    /\ ~resp'.analyzed
    /\ UNCHANGED <<users, posts, interactions>>

\* C4: a self-feedback attempt (give_impact to oneself, impact_post on one's own
\* post) is rejected with an error before the analyzer is called and changes no
\* impact_score, no impact_count and no interaction.
Thm_C4 ==
    [][/\ resp'.op = "give_impact" =>
            \A u \in DOMAIN users, feedback \in Feedbacks :
                give_impact(u, u, feedback) => RejectedUnchanged
       /\ (resp'.op = "impact_post" /\ resp'.post_id \in DOMAIN posts) =>
            \A feedback \in Feedbacks :
                impact_post(posts[resp'.post_id].author_id, resp'.post_id, feedback)
                    => RejectedUnchanged]_vars

Wit_C4 ==
    /\ resp.op = "impact_post" /\ resp.status = 400 /\ ~resp.analyzed
    /\ resp.post_id \in DOMAIN posts
    /\ Len(users) = 2

Thm_C7 ==
    [][LET scored == {u \in DOMAIN users \cap DOMAIN users' :
                         users'[u].impact_score # users[u].impact_score}
           counted == {p \in DOMAIN posts \cap DOMAIN posts' :
                         posts'[p].impact_count # posts[p].impact_count}
       IN  (scored # {} \/ counted # {}) =>
             /\ AppendsOne
             /\ interactions'[Len(interactions')].type = "impact"
             /\ interactions'[Len(interactions')].is_constructive = Some(TRUE)
             /\ \A u \in scored : interactions'[Len(interactions')].to_user_id = u
             /\ \A p \in counted :
                  interactions'[Len(interactions')].to_user_id = posts[p].author_id]_vars

Wit_C7 ==
    /\ Len(interactions) >= 1
    /\ LastInteraction.type = "impact"
    /\ LastInteraction.is_constructive = Some(TRUE)
    /\ LastInteraction.created_at = clock - 1
    /\ users[LastInteraction.to_user_id].impact_score > 0
    /\ \E p \in DOMAIN posts : posts[p].impact_count > 0

\* C8: every stored impact interaction has from_user_id # to_user_id.
Thm_C8 ==
    \A i \in DOMAIN interactions :
        interactions[i].type = "impact" =>
            interactions[i].from_user_id # interactions[i].to_user_id

Wit_C8 ==
    /\ Len(interactions) = 2
    /\ \A i \in DOMAIN interactions : interactions[i].type = "impact"
    /\ interactions[1].from_user_id = interactions[2].to_user_id
    /\ interactions[2].from_user_id = interactions[1].to_user_id

\* C9: an impact interaction, once stored, is there unchanged (from, to, text,
\* verdict, timestamp) after every later step.
Thm_C9 ==
    [][\A i \in DOMAIN interactions :
         interactions[i].type = "impact" =>
            /\ i \in DOMAIN interactions'
            /\ interactions'[i] = interactions[i]]_vars

Wit_C9 ==
    /\ Len(interactions) = 2
    /\ interactions[1].type = "impact"
    /\ interactions[1].created_at < clock - 1

\* the requests that ran to their end and were accepted
Accepted == {r \in Slots : reqs[r].pc = "done" /\ reqs[r].status = 201}

\* the points the accepted requests awarded to user t
PointsAwardedTo(t) ==
    SumSeq([r \in Slots |->
              IF r \in Accepted /\ ConcTargetId(reqs[r]) = t
              THEN reqs[r].impact_points ELSE 0])

\* the accepted impact_post requests on post p that awarded points
PositiveOn(p) ==
    {r \in Accepted : reqs[r].op = "impact_post" /\ reqs[r].arg = p
                      /\ reqs[r].impact_points > 0}

\* C5: whatever the interleaving of concurrent submissions, once they have all
\* ended every impact_score is its initial value (0) plus the sum of the points
\* awarded to that user, and every impact_count is its initial value (0) plus the
\* number of submissions on that post that awarded points.
Cex_C5 ==
    (\A r \in Slots : reqs[r].pc = "done") =>
        /\ \A t \in DOMAIN users : users[t].impact_score = PointsAwardedTo(t)
        /\ \A p \in DOMAIN posts : posts[p].impact_count = Cardinality(PositiveOn(p))

\* the verdict the stated decision order gives for c constructive keywords,
\* g generic patterns and w words
DecisionOrder(c, g, w) ==
    IF c >= 2 THEN TRUE
    ELSE IF c >= 1 /\ g = 0 THEN TRUE
    ELSE IF g > c THEN FALSE
    ELSE w >= 15

AnalyzeFollowsOrder ==
    LET lowered == lower_strip(fx.feedback)
    IN  fx.ret_verdict.is_constructive =
            DecisionOrder(constructive_count(lowered), non_constructive_count(lowered),
                          split_len(lowered))

\* C10 as stated: on a text of at least 20 characters the rule-based analyzer
\* follows the order  c >= 2 -> constructive;  else c >= 1 and g = 0 ->
\* constructive;  else g > c -> not constructive;  else constructive iff w >= 15.
Cex_C10 ==
    (fx.fn = "analyze" /\ fx.done /\ len(fx.feedback) >= 20) => AnalyzeFollowsOrder

\* C10, amended: the same decision order on a text that has at least 20
\* characters once the whitespace around it is stripped.
Thm_C10 ==
    (fx.fn = "analyze" /\ fx.done /\ len(lower_strip(fx.feedback)) >= 20)
        => AnalyzeFollowsOrder

Wit_C10 ==
    /\ fx.fn = "analyze" /\ fx.done
    /\ len(lower_strip(fx.feedback)) >= 20
    /\ constructive_count(lower_strip(fx.feedback)) = 1
    /\ non_constructive_count(lower_strip(fx.feedback)) = 1
    /\ split_len(lower_strip(fx.feedback)) >= 15
    /\ fx.ret_verdict.is_constructive

\* C11: with the rule-based analyzer a text of fewer than 20 characters is judged
\* not constructive whatever keywords it contains, so a submission carrying it
\* awards 0 points and changes no impact_score and no impact_count.
Thm_C11 ==
    [][(analyzer = "rule" /\ Submitted
            /\ \E t \in interactions'[Len(interactions')].feedback_content : len(t) < 20) =>
         /\ ~resp'.is_constructive
         /\ interactions'[Len(interactions')].is_constructive = Some(FALSE)
         /\ resp'.impact_points = 0
         /\ ScoresUnchangedExcept({})
         /\ CountsUnchangedExcept({})]_vars

Wit_C11 ==
    /\ analyzer = "rule"
    /\ resp.op = "impact_post" /\ resp.status = 201 /\ resp.impact_points = 0
    /\ Len(interactions) >= 1
    /\ \E t \in LastInteraction.feedback_content :
          /\ len(t) < 20
          /\ constructive_count(lower_strip(t)) >= 2
          /\ non_constructive_count(lower_strip(t)) = 0

\* C12: when the call of the model fails (transport error, unparsable or
\* incomplete answer) the submission still completes: it appends its interaction
\* with is_constructive false, awards 0 points and changes no impact_score and no
\* impact_count.
Thm_C12 ==
    [][(analyzer = "llm" /\ resp'.op \in FeedbackOps /\ resp'.analyzed
            /\ resp'.reason = "Analysis failed") =>
         /\ resp'.status = 201
         /\ AppendsOne
         /\ interactions'[Len(interactions')].type = "impact"
         /\ interactions'[Len(interactions')].is_constructive = Some(FALSE)
         /\ ~resp'.is_constructive
         /\ resp'.impact_points = 0
         /\ ScoresUnchangedExcept({})
         /\ CountsUnchangedExcept({})]_vars

Wit_C12 ==
    /\ analyzer = "llm"
    /\ resp.op = "give_impact" /\ resp.status = 201 /\ resp.analyzed
    /\ resp.reason = "Analysis failed"
    /\ Len(interactions) >= 1
    /\ LastInteraction.feedback_content = Some(F_long)
    /\ LastInteraction.is_constructive = Some(FALSE)

(***************************************************************************)
(* MatchSpec: the read-only matching queries on a stored population.       *)
(* Init draws the rows of table users; one query is then answered from     *)
(* them.  The queries write nothing, so the answer to a query depends on   *)
(* the stored rows only and one query per behaviour covers every call.     *)
(*                                                                         *)
(* Numbers: a cosine is held in ten-thousandths (CosUnit = 1.0) and a      *)
(* percentage in hundredths of a percent (10000 = 100.00), which is what   *)
(* round(x, 2) keeps.                                                      *)
(***************************************************************************)
Abs(x) == IF x < 0 THEN -x ELSE x
Min(a, b) == IF a <= b THEN a ELSE b
Range(s) == {s[i] : i \in DOMAIN s}

\* the H3 cells of the population, along one line of the grid
GridCells == <<"c0", "c1", "c2">>
CellPos(c) == CHOOSE i \in DOMAIN GridCells : GridCells[i] = c

\* h3.grid_distance
grid_distance(a, b) == Abs(CellPos(a) - CellPos(b))

\* h3.grid_disk: the cells within k steps of a cell, the cell included
grid_disk(c, k) ==
    IF c \in Range(GridCells)
    THEN {d \in Range(GridCells) : grid_distance(c, d) <= k}
    ELSE {}

get_neighboring_cells_without_center(h3_index, rings) ==
    grid_disk(h3_index, rings) \ {h3_index}

get_neighboring_cells(h3_index, rings) == grid_disk(h3_index, rings)

h3_distance(h3_index1, h3_index2) == grid_distance(h3_index1, h3_index2)

CosUnit == 10000

dot(a, b) == a[1] * b[1] + a[2] * b[2]

\* np.linalg.norm (the vectors of the model have whole norms)
norm(a) == CHOOSE n \in 0..dot(a, a) : n * n = dot(a, a)

\* round(x, 2) of a value held in ten-thousandths, as hundredths
round2(x) ==
    LET q == x \div 100
        r == x % 100
    IN IF r > 50 \/ (r = 50 /\ q % 2 = 1) THEN q + 1 ELSE q

cosine(vec1, vec2) ==
    IF norm(vec1) = 0 \/ norm(vec2) = 0
    THEN 0
    ELSE (dot(vec1, vec2) * CosUnit) \div (norm(vec1) * norm(vec2))

\* the vectors of the model, and their cosines computed once
Vectors == {<<3, 4>>, <<4, 3>>, <<-3, -4>>, <<1, 0>>, <<0, 1>>}
Cosines == [pair \in Vectors \X Vectors |-> cosine(pair[1], pair[2])]

cosine_similarity(vec1, vec2) ==
    IF <<vec1, vec2>> \in DOMAIN Cosines THEN Cosines[<<vec1, vec2>>]
    ELSE cosine(vec1, vec2)

cosine_similarity_percentage_unshifted(vec1, vec2) ==
    round2(cosine_similarity(vec1, vec2) * 100)

cosine_similarity_percentage(vec1, vec2) ==
    round2((cosine_similarity(vec1, vec2) + CosUnit) * 50)

\* pgvector's <=> : the cosine distance
cosine_distance(vec1, vec2) == CosUnit - cosine_similarity(vec1, vec2)

\* the kinds of profile a population is made of: (h3_index, current_goal); a
\* profile has the vector of its goal (sync_goal) and none before its first sync
ProfileKinds ==
    << <<"c0", "g2">>, <<"c1", "g3">>, <<"c2", "g4">>, <<None, "g2">>, <<"c0", None>> >>

Profile(kind) ==
    LET goal == ProfileKinds[kind][2]
    IN [User("b1") EXCEPT !.h3_index = ProfileKinds[kind][1],
                          !.current_goal = goal,
                          !.bio_vector = IF goal = None THEN NoVector
                                         ELSE embed_text(goal)]

\* the ids are opaque (uuid4) and no query reads their order: a population is
\* listed kind by kind
Populations ==
    UNION {{[i \in 1..n |-> Profile(s[i])] :
               s \in {t \in [1..n -> DOMAIN ProfileKinds] :
                         \A i \in 1..(n - 1) : t[i] <= t[i + 1]}} : n \in 1..MaxProfiles}

RingChoices == {1, 2}
LimitChoices == {1, 2}
MinSimilarities == {0, 9900}

NoQuery ==
    [fn |-> "none", user_id |-> 0, rings |-> 0, limit |-> 0, min_similarity |-> 0,
     queried |-> FALSE, status |-> 0, matches |-> <<>>, total_count |-> 0,
     user_h3_index |-> ""]

MatchInit ==
    /\ users \in Populations
    /\ posts = <<>>
    /\ interactions = <<>>
    /\ focus_sessions = <<>>
    /\ clock = 0
    /\ analyzer = "rule"
    /\ resp = Response("none", 0)
    /\ reqs = <<>>
    /\ fx = NoQuery

\* the lists of k different members of S, in every order
RECURSIVE Arrangements(_, _)
Arrangements(S, k) ==
    IF k = 0 \/ S = {} THEN {<<>>}
    ELSE UNION {{<<x>> \o rest : rest \in Arrangements(S \ {x}, k - 1)} : x \in S}

\* the same for the first n row numbers, computed once
Orders == [n \in 0..MaxProfiles, k \in 0..MaxProfiles |-> Arrangements(1..n, k)]

\* the members of a set of ids, smallest first
Ascending(S) ==
    [j \in 1..Cardinality(S) |-> CHOOSE x \in S : Cardinality({y \in S : y < x}) = j - 1]

\* the answers of a SELECT without ORDER BY: any k of the selected rows, in any order
Answers(rows, k) ==
    LET listed == Ascending(rows)
    IN {[j \in 1..k |-> listed[order[j]]] : order \in Orders[Cardinality(rows), k]}

\* the rows the WHERE clause of find_nearby_users selects
NearbyRows_with_self(user_id, h3_index, rings) ==
    {i \in DOMAIN users :
        /\ users[i].h3_index \in get_neighboring_cells(h3_index, rings)
        /\ users[i].bio_vector # NoVector}

NearbyRows(user_id, h3_index, rings) ==
    {i \in DOMAIN users :
        /\ i # user_id
        /\ users[i].h3_index \in get_neighboring_cells(h3_index, rings)
        /\ users[i].bio_vector # NoVector}

\* MatchingService.find_nearby_users: SELECT ... WHERE ... LIMIT limit has no
\* ORDER BY, so the database may answer with any `limit` of the selected rows in
\* any order; the value is the set of answers it can give
find_nearby_users(user_id, h3_index, rings, limit) ==
    LET rows == NearbyRows(user_id, h3_index, rings)
    IN Answers(rows, Min(limit, Cardinality(rows)))

Match_adjacent_only(user, similarity, distance) ==
    [user |-> user, similarity_percentage |-> similarity, h3_distance |-> distance,
     is_neighbor |-> distance = 1]

Match(user, similarity, distance) ==
    [user |-> user, similarity_percentage |-> similarity, h3_distance |-> distance,
     is_neighbor |-> distance <= 1]

\* list.sort(key = similarity_percentage, reverse = True): a stable sort, one
\* insertion after the entries that are not smaller
InsertMatch_ascending(sorted, m) ==
    LET k == Cardinality({i \in DOMAIN sorted :
                  sorted[i].similarity_percentage <= m.similarity_percentage})
    IN SubSeq(sorted, 1, k) \o <<m>> \o SubSeq(sorted, k + 1, Len(sorted))

InsertMatch(sorted, m) ==
    LET k == Cardinality({i \in DOMAIN sorted :
                  sorted[i].similarity_percentage >= m.similarity_percentage})
    IN SubSeq(sorted, 1, k) \o <<m>> \o SubSeq(sorted, k + 1, Len(sorted))

RECURSIVE SortMatches(_)
SortMatches(matches) ==
    IF matches = <<>> THEN <<>>
    ELSE InsertMatch(SortMatches(SubSeq(matches, 1, Len(matches) - 1)),
                     matches[Len(matches)])

\* the loop of find_matches over the rows find_nearby_users returned
RECURSIVE ScoreNearby(_, _, _, _)
ScoreNearby(nearby_users, user_vector, h3_index, min_similarity) ==
    IF nearby_users = <<>> THEN <<>>
    ELSE LET user == Head(nearby_users)
             similarity == cosine_similarity_percentage(user_vector,
                                                        users[user].bio_vector)
             rest == ScoreNearby(Tail(nearby_users), user_vector, h3_index,
                                 min_similarity)
         IN IF users[user].bio_vector = NoVector THEN rest
            ELSE IF similarity >= min_similarity
            THEN <<Match(user, similarity, h3_distance(h3_index, users[user].h3_index))>>
                     \o rest
            ELSE rest

\* MatchingService.find_matches, given the answer of find_nearby_users
find_matches(nearby_users, user_vector, h3_index, min_similarity, limit) ==
    LET matches == SortMatches(ScoreNearby(nearby_users, user_vector, h3_index,
                                           min_similarity))
    IN SubSeq(matches, 1, Min(limit, Len(matches)))

get_matches_unlocated(u, rings, limit, min_similarity) ==
    /\ fx.fn = "none"
    /\ LET current_user == users[u]
           call == [NoQuery EXCEPT !.fn = "get_matches", !.user_id = u,
                                   !.rings = rings, !.limit = limit,
                                   !.min_similarity = min_similarity, !.status = 200]
       IN IF current_user.bio_vector = NoVector
          THEN fx' = [call EXCEPT !.user_h3_index = current_user.h3_index]
          ELSE \E nearby_users \in find_nearby_users(u, current_user.h3_index, rings,
                                                     limit * 3) :
                  LET matches == find_matches(nearby_users, current_user.bio_vector,
                                              current_user.h3_index, min_similarity,
                                              limit)
                  IN fx' = [call EXCEPT !.queried = TRUE, !.matches = matches,
                                        !.total_count = Len(matches),
                                        !.user_h3_index = current_user.h3_index]
    /\ UNCHANGED <<users, posts, interactions, focus_sessions, clock, analyzer, resp, reqs>>

\* GET /matching/matches
get_matches(u, rings, limit, min_similarity) ==
    /\ fx.fn = "none"
    /\ LET current_user == users[u]
           call == [NoQuery EXCEPT !.fn = "get_matches", !.user_id = u,
                                   !.rings = rings, !.limit = limit,
                                   !.min_similarity = min_similarity, !.status = 200]
       IN IF current_user.h3_index = None
          THEN fx' = call
          ELSE IF current_user.bio_vector = NoVector
          THEN fx' = [call EXCEPT !.user_h3_index = current_user.h3_index]
          ELSE \E nearby_users \in find_nearby_users(u, current_user.h3_index, rings,
                                                     limit * 3) :
                  LET matches == find_matches(nearby_users, current_user.bio_vector,
                                              current_user.h3_index, min_similarity,
                                              limit)
                  IN fx' = [call EXCEPT !.queried = TRUE, !.matches = matches,
                                        !.total_count = Len(matches),
                                        !.user_h3_index = current_user.h3_index]
    /\ UNCHANGED <<users, posts, interactions, focus_sessions, clock, analyzer, resp, reqs>>

SemanticMinSimilarities == {3000, 9700}

\* the rows of the query of find_semantic_matches:
\* WHERE id != :user_id AND bio_vector IS NOT NULL
SemanticRows(user_id) ==
    {i \in DOMAIN users : i # user_id /\ users[i].bio_vector # NoVector}

\* ORDER BY bio_vector <=> vector LIMIT k: the k nearest rows, nearest first; rows
\* at the same distance come in any order.  The answer is taken as exact; a scan of
\* the ivfflat index users_bio_vector_idx (database.py) may return fewer rows.
NearestRows(rows, user_vector, k) ==
    LET n == Cardinality(rows)
        ordered == {order \in Answers(rows, n) :
                       \A j \in 1..(n - 1) :
                           cosine_distance(users[order[j]].bio_vector, user_vector)
                               <= cosine_distance(users[order[j + 1]].bio_vector, user_vector)}
    IN {SubSeq(order, 1, Min(k, n)) : order \in ordered}

\* the loop of find_semantic_matches over the rows of the query
RECURSIVE ScoreRows(_, _, _)
ScoreRows(rows, user_vector, min_similarity) ==
    IF rows = <<>> THEN <<>>
    ELSE LET row == Head(rows)
             distance == cosine_distance(users[row].bio_vector, user_vector)
             similarity == round2((CosUnit - distance) * 100)
             rest == ScoreRows(Tail(rows), user_vector, min_similarity)
         IN IF similarity >= min_similarity
            THEN <<[user |-> row, similarity_percentage |-> similarity]>> \o rest
            ELSE rest

\* MatchingService.find_semantic_matches, called with the vector of user u
find_semantic_matches(u, limit, min_similarity) ==
    /\ fx.fn = "none"
    /\ users[u].bio_vector # NoVector
    /\ \E rows \in NearestRows(SemanticRows(u), users[u].bio_vector, limit * 2) :
           LET matches == ScoreRows(rows, users[u].bio_vector, min_similarity)
           IN fx' = [NoQuery EXCEPT !.fn = "find_semantic_matches", !.user_id = u,
                                    !.limit = limit, !.min_similarity = min_similarity,
                                    !.status = 200, !.queried = TRUE,
                                    !.matches = SubSeq(matches, 1, Min(limit, Len(matches))),
                                    !.total_count = Min(limit, Len(matches))]
    /\ UNCHANGED <<users, posts, interactions, focus_sessions, clock, analyzer, resp, reqs>>

MatchNext ==
    \/ \E u \in DOMAIN users, rings \in RingChoices, limit \in LimitChoices,
          min_similarity \in MinSimilarities : get_matches(u, rings, limit, min_similarity)
    \/ \E u \in DOMAIN users, limit \in LimitChoices,
          min_similarity \in SemanticMinSimilarities :
              find_semantic_matches(u, limit, min_similarity)

MatchSpec == MatchInit /\ [][MatchNext]_vars

(***************************************************************************)
(* FeedSpec: the read-only feed queries on stored posts.  Init draws the   *)
(* rows of table posts (created one after the other, so created_at grows   *)
(* with the id) for two users, one with a synced goal and one without; one *)
(* query is then answered from them, and a client of the ranked feed may   *)
(* go on to ask for the page that follows (fx.prev keeps the rows of the   *)
(* page before).  The impact rows behind the counters are not listed: the  *)
(* feed reads table interactions only for is_impacted_by_me.               *)
(*                                                                         *)
(* A final_score is held in hundred-thousandths: the two weights are in    *)
(* tenths and the two terms in ten-thousandths.                            *)
(***************************************************************************)
SimilarityWeight == 8
ImpactWeight == 2
ImpactFull == 10

\* the kinds of post: (author_id, content, content_vector stored, impact_count)
PostKinds ==
    << <<2, "p2", TRUE, 0>>, <<2, "p3", TRUE, 1>>, <<1, "p3", TRUE, 10>>,
       <<2, "p3", TRUE, 12>>, <<1, "p2", FALSE, 0>>, <<1, "p3", TRUE, 0>> >>

StoredPost(kind, now) ==
    LET k == PostKinds[kind]
    IN [Post(k[1], k[2], IF k[3] THEN embed_text(k[2]) ELSE NoVector, now)
           EXCEPT !.impact_count = k[4]]

FeedUsers ==
    << [User("b1") EXCEPT !.current_goal = "g2", !.bio_vector = embed_text("g2")],
       User("b1") >>

FeedLimits == {1, 2, 3}
FeedOffsets == {0, 1}

NoFeed ==
    [fn |-> "none", user_id |-> 0, limit |-> 0, offset |-> 0, queried |-> FALSE,
     status |-> 0, rows |-> <<>>, posts |-> <<>>, total_count |-> 0, curated_by |-> "",
     paged |-> FALSE, prev |-> <<>>]

FeedInit ==
    /\ users = FeedUsers
    /\ posts \in UNION {{[i \in 1..n |-> StoredPost(kinds[i], i - 1)] :
                            kinds \in [1..n -> DOMAIN PostKinds]} : n \in 0..MaxFeedPosts}
    /\ interactions = <<>>
    /\ focus_sessions = <<>>
    /\ clock = Len(posts)
    /\ analyzer = "rule"
    /\ resp = Response("none", 0)
    /\ reqs = <<>>
    /\ fx = NoFeed

\* EXISTS(SELECT 1 FROM interactions i WHERE i.from_user_id = :user_id
\*        AND i.to_user_id = p.author_id AND i.type = 'impact')
is_impacted_by_me(user_id, author_id) ==
    \E i \in DOMAIN interactions :
        /\ interactions[i].from_user_id = user_id
        /\ interactions[i].to_user_id = author_id
        /\ interactions[i].type = "impact"

\* (1 - distance) * 0.8 + LEAST(impact_count::float / 10.0, 1.0) * 0.2
final_score_uncapped(distance, impact_count) ==
    (CosUnit - distance) * SimilarityWeight
        + ((impact_count * CosUnit) \div ImpactFull) * ImpactWeight

final_score(distance, impact_count) ==
    (CosUnit - distance) * SimilarityWeight
        + Min((impact_count * CosUnit) \div ImpactFull, CosUnit) * ImpactWeight

\* a row of the query of get_feed
FeedRow(user_id, user_vector, id) ==
    LET p == posts[id]
        distance == cosine_distance(p.content_vector, user_vector)
    IN [id |-> id, author_id |-> p.author_id, content |-> p.content,
        impact_count |-> p.impact_count, created_at |-> p.created_at,
        distance |-> distance,
        is_impacted_by_me |-> is_impacted_by_me(user_id, p.author_id),
        final_score |-> final_score(distance, p.impact_count)]

\* FROM posts p JOIN users u ON p.author_id = u.id WHERE p.content_vector IS NOT NULL
RankedPosts ==
    {id \in DOMAIN posts :
        posts[id].author_id \in DOMAIN users /\ posts[id].content_vector # NoVector}

\* LIMIT :limit OFFSET :offset of an ordered answer
Page(order, limit, offset) == SubSeq(order, offset + 1, Min(offset + limit, Len(order)))

\* ORDER BY final_score DESC LIMIT :limit OFFSET :offset; rows with the same
\* final_score come in any order
RankedRows(user_id, user_vector, limit, offset) ==
    LET n == Cardinality(RankedPosts)
        ranked == {[k \in 1..n |-> FeedRow(user_id, user_vector, order[k])] :
                      order \in Answers(RankedPosts, n)}
    IN {Page(rows, limit, offset) :
           rows \in {r \in ranked : \A k \in 1..(n - 1) :
                                        r[k].final_score >= r[k + 1].final_score}}

PostResponse(row, similarity_score, impacted) ==
    [id |-> row.id, author_id |-> row.author_id, content |-> row.content,
     impact_count |-> row.impact_count, created_at |-> row.created_at,
     similarity_score |-> similarity_score, is_impacted_by_me |-> impacted]

get_feed_rejecting(u, limit, offset) ==
    /\ \/ fx.fn = "none"
       \/ /\ fx.fn = "get_feed" /\ fx.queried /\ ~fx.paged
          /\ u = fx.user_id /\ limit = fx.limit /\ offset = fx.offset + fx.limit
    /\ LET current_user == users[u]
           call == [NoFeed EXCEPT !.fn = "get_feed", !.user_id = u, !.limit = limit,
                                  !.offset = offset, !.status = 200,
                                  !.paged = (fx.fn = "get_feed"),
                                  !.prev = IF fx.fn = "get_feed" THEN fx.rows ELSE <<>>]
       IN IF current_user.bio_vector = NoVector
          THEN fx' = [call EXCEPT !.status = 400]
          ELSE \E rows \in RankedRows(u, current_user.bio_vector, limit, offset) :
                  fx' = [call EXCEPT
                            !.queried = TRUE,
                            !.rows = rows,
                            !.posts = [k \in DOMAIN rows |->
                                          PostResponse(rows[k],
                                              Some(round2((CosUnit - rows[k].distance) * 100)),
                                              rows[k].is_impacted_by_me)],
                            !.total_count = Len(rows),
                            !.curated_by = IF current_user.current_goal = None
                                           THEN "Your interests"
                                           ELSE current_user.current_goal]
    /\ UNCHANGED <<users, posts, interactions, focus_sessions, clock, analyzer, resp, reqs>>

\* GET /feed
get_feed(u, limit, offset) ==
    /\ \/ fx.fn = "none"
       \/ /\ fx.fn = "get_feed" /\ fx.queried /\ ~fx.paged
          /\ u = fx.user_id /\ limit = fx.limit /\ offset = fx.offset + fx.limit
    /\ LET current_user == users[u]
           call == [NoFeed EXCEPT !.fn = "get_feed", !.user_id = u, !.limit = limit,
                                  !.offset = offset, !.status = 200,
                                  !.paged = (fx.fn = "get_feed"),
                                  !.prev = IF fx.fn = "get_feed" THEN fx.rows ELSE <<>>]
       IN IF current_user.bio_vector = NoVector
          THEN fx' = [call EXCEPT !.curated_by = "Set your goal to get personalized feed"]
          ELSE \E rows \in RankedRows(u, current_user.bio_vector, limit, offset) :
                  fx' = [call EXCEPT
                            !.queried = TRUE,
                            !.rows = rows,
                            !.posts = [k \in DOMAIN rows |->
                                          PostResponse(rows[k],
                                              Some(round2((CosUnit - rows[k].distance) * 100)),
                                              rows[k].is_impacted_by_me)],
                            !.total_count = Len(rows),
                            !.curated_by = IF current_user.current_goal = None
                                           THEN "Your interests"
                                           ELSE current_user.current_goal]
    /\ UNCHANGED <<users, posts, interactions, focus_sessions, clock, analyzer, resp, reqs>>

RecentRows_vectored(limit, offset) ==
    LET n == Cardinality(RankedPosts)
    IN {Page(order, limit, offset) :
           order \in {o \in Answers(RankedPosts, n) :
                         \A k \in 1..(n - 1) :
                             posts[o[k]].created_at >= posts[o[k + 1]].created_at}}

\* select(Post, User.username).join(User, ...).order_by(Post.created_at.desc())
\* .limit(limit).offset(offset); rows created at the same instant come in any order
RecentRows(limit, offset) ==
    LET joined == {id \in DOMAIN posts : posts[id].author_id \in DOMAIN users}
        n == Cardinality(joined)
    IN {Page(order, limit, offset) :
           order \in {o \in Answers(joined, n) :
                         \A k \in 1..(n - 1) :
                             posts[o[k]].created_at >= posts[o[k + 1]].created_at}}

\* GET /feed/recent
get_recent_feed(limit, offset) ==
    /\ fx.fn = "none"
    /\ \E ids \in RecentRows(limit, offset) :
           fx' = [NoFeed EXCEPT
                     !.fn = "get_recent_feed", !.limit = limit, !.offset = offset,
                     !.status = 200, !.queried = TRUE,
                     !.posts = [k \in DOMAIN ids |->
                                   PostResponse([id |-> ids[k],
                                                 author_id |-> posts[ids[k]].author_id,
                                                 content |-> posts[ids[k]].content,
                                                 impact_count |-> posts[ids[k]].impact_count,
                                                 created_at |-> posts[ids[k]].created_at],
                                                Null, FALSE)],
                     !.total_count = Len(ids)]
    /\ UNCHANGED <<users, posts, interactions, focus_sessions, clock, analyzer, resp, reqs>>

FeedNext ==
    \/ \E u \in DOMAIN users, limit \in FeedLimits, offset \in FeedOffsets :
           get_feed(u, limit, offset)
    \/ \E limit \in FeedLimits, offset \in FeedOffsets : get_recent_feed(limit, offset)

FeedSpec == FeedInit /\ [][FeedNext]_vars

(***************************************************************************)
(* ProfileSpec: the handlers that write a profile, one request at a time,  *)
(* with goals whose embeddings differ.                                     *)
(***************************************************************************)
SyncGoals == {"g1", "g2", "g4"}

ProfileNext ==
    \/ \E bio \in {None} : register(bio)
    \/ \E u \in UserIds, bio \in Bios : update_profile(u, bio)
    \/ \E u \in UserIds, goal \in SyncGoals, embedded \in BOOLEAN :
          sync_goal(u, goal, embedded)
    \/ \E u \in UserIds, coord \in Cells : update_location(u, coord)

ProfileSpec == Init /\ [][ProfileNext]_vars

(***************************************************************************)
(* FocusSpec: focus requests in flight at once.  As in ConcSpec every      *)
(* request has its own session: the SELECT of the handler reads the        *)
(* committed rows, and flush() followed by the commit of get_session       *)
(* writes the row the handler added or changed.  A request yields at each  *)
(* await; a slot takes the next request when its request has ended.        *)
(***************************************************************************)
IdleFocus == [pc |-> "idle", op |-> "none", user |-> 0, seen |-> 0, status |-> 0]

FocusInit ==
    /\ users = <<User(None), User(None)>>
    /\ posts = <<>>
    /\ interactions = <<>>
    /\ focus_sessions = <<>>
    /\ clock = 0
    /\ analyzer = "rule"
    /\ resp = Response("none", 0)
    /\ reqs = [r \in Slots |-> IdleFocus]
    /\ fx = NoFx

FocusFrame == UNCHANGED <<users, posts, interactions, analyzer, resp, fx>>

\* the request arrives and get_current_user has loaded the user
FocusArrive(r, op, u) ==
    /\ reqs[r].pc \in {"idle", "done"}
    /\ u \in DOMAIN users
    /\ reqs' = [reqs EXCEPT ![r] = [IdleFocus EXCEPT !.pc = "select", !.op = op,
                                                     !.user = u]]
    /\ UNCHANGED <<focus_sessions, clock>>
    /\ FocusFrame

\* select(FocusSession).where(user_id == current_user.id, is_active == True) and
\* scalar_one_or_none(), which raises MultipleResultsFound on two rows; then the
\* check of the handler
FocusSelect(r) ==
    /\ reqs[r].pc = "select"
    /\ LET active == ActiveSessions(reqs[r].user)
           ended(status) == [reqs EXCEPT ![r].pc = "done", ![r].status = status]
       IN reqs' =
              IF Cardinality(active) > 1 THEN ended(500)
              ELSE IF reqs[r].op = "start_focus_session"
              THEN IF active # {} THEN ended(400)
                   ELSE [reqs EXCEPT ![r].pc = "flush"]
              ELSE IF active = {} THEN ended(404)
                   ELSE [reqs EXCEPT ![r].pc = "flush",
                                     ![r].seen = CHOOSE i \in active : TRUE]
    /\ UNCHANGED <<focus_sessions, clock>>
    /\ FocusFrame

\* session.add, flush, refresh, and the commit of get_session
FocusFlushCommit(r, goal) ==
    /\ reqs[r].pc = "flush"
    /\ clock < MaxClock
    /\ IF reqs[r].op = "start_focus_session"
       THEN /\ Len(focus_sessions) < MaxConcFocus
            /\ focus_sessions' = Append(focus_sessions,
                                        FocusSession(reqs[r].user, goal, clock))
            /\ reqs' = [reqs EXCEPT ![r].pc = "done", ![r].status = 201]
       ELSE /\ focus_sessions' = [focus_sessions EXCEPT
                    ![reqs[r].seen].is_active = FALSE,
                    ![reqs[r].seen].end_time = clock,
                    ![reqs[r].seen].duration_minutes =
                        clock - focus_sessions[reqs[r].seen].start_time]
            /\ reqs' = [reqs EXCEPT ![r].pc = "done", ![r].status = 200]
    /\ clock' = clock + 1
    /\ FocusFrame

FocusNext ==
    \/ \E r \in Slots, op \in {"start_focus_session", "end_focus_session"},
          u \in UserIds : FocusArrive(r, op, u)
    \/ \E r \in Slots : FocusSelect(r)
    \/ \E r \in Slots, goal \in Goals : FocusFlushCommit(r, goal)

FocusSpec == FocusInit /\ [][FocusNext]_vars

(***************************************************************************)
(* WsSpec: the websocket endpoint.  reqs holds the websockets (the         *)
(* position of the handler of each, the user id of its path, the messages  *)
(* it has sent and the replies delivered to it) and fx the connection      *)
(* manager with the last reply it was asked to send.  The handlers run on  *)
(* one event loop and yield at each await.                                 *)
(***************************************************************************)
Sockets == 1..MaxSockets

WsUserIds == {"u1", "u2"}

WsData == {"ping", "location_update", "focus_mode", "hello", "{"}

NoSocket == 0

NewSocket == [pc |-> "new", user_id |-> "", sent |-> 0, received |-> 0]

\* ConnectionManager.__init__
ConnectionManager ==
    [fn |-> "manager",
     active_connections |-> [u \in WsUserIds |-> NoSocket],
     last |-> [from |-> NoSocket, to |-> NoSocket, type |-> "none"]]

WsInit ==
    /\ users = <<User(None), User(None)>>
    /\ posts = <<>>
    /\ interactions = <<>>
    /\ focus_sessions = <<>>
    /\ clock = 0
    /\ analyzer = "rule"
    /\ resp = Response("none", 0)
    /\ reqs = [s \in Sockets |-> NewSocket]
    /\ fx = ConnectionManager

WsFrame == UNCHANGED <<users, posts, interactions, focus_sessions, clock, analyzer, resp>>

\* json.loads of the text and message.get("type"); "{" is not JSON
json_loads(data) ==
    IF data = "{" THEN [ok |-> FALSE, type |-> ""] ELSE [ok |-> TRUE, type |-> data]

\* the type of the reply the endpoint sends for a text
ReplyType(data) ==
    LET message == json_loads(data)
    IN IF ~message.ok THEN "error"
       ELSE CASE message.type = "ping" -> "pong"
              [] message.type = "location_update" -> "location_updated"
              [] message.type = "focus_mode" -> "focus_mode_changed"
              [] OTHER -> "error"

\* manager.connect up to its await: websocket.accept()
WsAccept(s, user_id) ==
    /\ reqs[s].pc = "new"
    /\ reqs' = [reqs EXCEPT ![s].pc = "accepted", ![s].user_id = user_id]
    /\ UNCHANGED fx
    /\ WsFrame

\* the rest of manager.connect: active_connections[user_id] = websocket
WsRegister(s) ==
    /\ reqs[s].pc = "accepted"
    /\ reqs' = [reqs EXCEPT ![s].pc = "open"]
    /\ fx' = [fx EXCEPT !.active_connections[reqs[s].user_id] = s]
    /\ WsFrame

\* manager.disconnect: active_connections.pop(user_id, None)
disconnect(s) ==
    [fx EXCEPT !.active_connections[reqs[s].user_id] = NoSocket]

\* receive_text raises WebSocketDisconnect
WsDisconnect(s) ==
    /\ reqs[s].pc = "open"
    /\ reqs' = [reqs EXCEPT ![s].pc = "closed"]
    /\ fx' = disconnect(s)
    /\ WsFrame

\* receive_text returns a text and the reply goes to send_personal_message,
\* which sends on the socket registered under user_id, if any
WsMessage(s, data) ==
    /\ reqs[s].pc = "open"
    /\ reqs[s].sent < MaxMsgs
    /\ LET target == fx.active_connections[reqs[s].user_id]
           counted == [reqs EXCEPT ![s].sent = @ + 1]
       IN /\ reqs' = IF target = NoSocket THEN counted
                     ELSE [counted EXCEPT ![target].received = @ + 1]
          /\ fx' = [fx EXCEPT !.last = [from |-> s, to |-> target,
                                        type |-> ReplyType(data)]]
    /\ WsFrame

WsNext ==
    \/ \E s \in Sockets, user_id \in WsUserIds : WsAccept(s, user_id)
    \/ \E s \in Sockets : WsRegister(s)
    \/ \E s \in Sockets : WsDisconnect(s)
    \/ \E s \in Sockets, data \in WsData : WsMessage(s, data)

WsSpec == WsInit /\ [][WsNext]_vars

(***************************************************************************)
(* EngineFnSpec: the pure functions of services/embedding.py and the H3    *)
(* wrappers of services/matching.py applied to bounded inputs.  The        *)
(* vectors are the two-dimensional integer vectors with a whole norm and   *)
(* coordinates up to MaxCoord, the zero vector included.                   *)
(***************************************************************************)
EngineVectors ==
    {v \in [1..2 -> (-MaxCoord)..MaxCoord] :
        \E n \in 0..(2 * MaxCoord) : n * n = dot(v, v)}

NoEngineFx ==
    [fn |-> "none", vec1 |-> <<0, 0>>, vec2 |-> <<0, 0>>, cell1 |-> "c0",
     cell2 |-> "c0", rings |-> 0, done |-> FALSE, ret_similarity |-> 0,
     ret_percentage |-> 0, ret_distance |-> 0, ret_cells |-> {}]

EngineInputs ==
    {[NoEngineFx EXCEPT !.fn = "cosine_similarity_percentage", !.vec1 = a, !.vec2 = b] :
        a \in EngineVectors, b \in EngineVectors}
    \cup {[NoEngineFx EXCEPT !.fn = "h3_distance", !.cell1 = a, !.cell2 = b] :
              a \in Range(GridCells), b \in Range(GridCells)}
    \cup {[NoEngineFx EXCEPT !.fn = "get_neighboring_cells", !.cell1 = c, !.rings = k] :
              c \in Range(GridCells), k \in 0..MaxRings}

EngineInit ==
    /\ DbInit
    /\ analyzer = "rule"
    /\ reqs = <<>>
    /\ fx \in EngineInputs

ApplySimilarity ==
    /\ fx.fn = "cosine_similarity_percentage" /\ ~fx.done
    /\ fx' = [fx EXCEPT !.done = TRUE,
                        !.ret_similarity = cosine_similarity(fx.vec1, fx.vec2),
                        !.ret_percentage = cosine_similarity_percentage(fx.vec1, fx.vec2)]
    /\ UNCHANGED <<users, posts, interactions, focus_sessions, clock, analyzer, resp, reqs>>

ApplyDistance ==
    /\ fx.fn = "h3_distance" /\ ~fx.done
    /\ fx' = [fx EXCEPT !.done = TRUE, !.ret_distance = h3_distance(fx.cell1, fx.cell2)]
    /\ UNCHANGED <<users, posts, interactions, focus_sessions, clock, analyzer, resp, reqs>>

ApplyNeighbors ==
    /\ fx.fn = "get_neighboring_cells" /\ ~fx.done
    /\ fx' = [fx EXCEPT !.done = TRUE,
                        !.ret_cells = get_neighboring_cells(fx.cell1, fx.rings)]
    /\ UNCHANGED <<users, posts, interactions, focus_sessions, clock, analyzer, resp, reqs>>

EngineNext == ApplySimilarity \/ ApplyDistance \/ ApplyNeighbors

EngineFnSpec == EngineInit /\ [][EngineNext]_vars

(***************************************************************************)
(* Properties of the matching and feed queries                             *)
(***************************************************************************)
Answered(fn) == fx.fn = fn /\ fx.status = 200 /\ fx.queried

\* C13: the output of find_matches never contains the requester, never a profile
\* without a vector, only profiles whose cell is in the ring of the requester's
\* cell, and every similarity it reports is at least min_similarity.
Thm_C13 ==
    Answered("get_matches") =>
        \A k \in DOMAIN fx.matches :
            LET m == fx.matches[k]
            IN /\ m.user \in DOMAIN users
               /\ m.user # fx.user_id
               /\ users[m.user].bio_vector # NoVector
               /\ users[m.user].h3_index
                      \in grid_disk(users[fx.user_id].h3_index, fx.rings)
               /\ m.similarity_percentage >= fx.min_similarity

Wit_C13 ==
    /\ Answered("get_matches")
    /\ fx.rings = 1 /\ fx.min_similarity = 9900 /\ fx.limit = 2
    /\ Len(fx.matches) = 1
    /\ \E i \in DOMAIN users : users[i].bio_vector = NoVector
                                  /\ users[i].h3_index = users[fx.user_id].h3_index
    /\ \E i \in DOMAIN users : users[i].bio_vector # NoVector /\ users[i].h3_index # None
                                  /\ grid_distance(users[i].h3_index,
                                                   users[fx.user_id].h3_index) = 2
    /\ \E i \in NearbyRows(fx.user_id, users[fx.user_id].h3_index, fx.rings) :
           cosine_similarity_percentage(users[fx.user_id].bio_vector,
                                        users[i].bio_vector) < fx.min_similarity

\* C14 as stated: the list returned by find_matches is strictly descending by
\* similarity percentage.
Cex_C14 ==
    Answered("get_matches") =>
        \A k \in 1..(Len(fx.matches) - 1) :
            fx.matches[k].similarity_percentage > fx.matches[k + 1].similarity_percentage

\* C14, amended: the list returned by find_matches is in non-increasing order of
\* similarity percentage; neighbours in the list may have the same percentage.
Thm_C14 ==
    Answered("get_matches") =>
        \A k \in 1..(Len(fx.matches) - 1) :
            fx.matches[k].similarity_percentage >= fx.matches[k + 1].similarity_percentage

Wit_C14 ==
    /\ Answered("get_matches")
    /\ Len(fx.matches) = 2
    /\ fx.matches[1].similarity_percentage = fx.matches[2].similarity_percentage
    /\ \E i \in NearbyRows(fx.user_id, users[fx.user_id].h3_index, fx.rings) :
           cosine_similarity_percentage(users[fx.user_id].bio_vector, users[i].bio_vector)
               < fx.matches[2].similarity_percentage

\* the profiles find_matches is to rank: in the ring, not the requester, with a
\* vector, at or above the threshold
Eligible ==
    {i \in NearbyRows(fx.user_id, users[fx.user_id].h3_index, fx.rings) :
        cosine_similarity_percentage(users[fx.user_id].bio_vector, users[i].bio_vector)
            >= fx.min_similarity}

Returned == {fx.matches[k].user : k \in DOMAIN fx.matches}

\* C15 as stated: the output of find_matches is the top `limit` of the ranking of
\* all eligible profiles of the ring: it has min(limit, number eligible) entries
\* and no eligible profile left out has a strictly higher similarity than one
\* returned.
Cex_C15 ==
    Answered("get_matches") =>
        /\ Len(fx.matches) = Min(fx.limit, Cardinality(Eligible))
        /\ \A i \in Eligible \ Returned : \A k \in DOMAIN fx.matches :
               cosine_similarity_percentage(users[fx.user_id].bio_vector,
                                            users[i].bio_vector)
                   <= fx.matches[k].similarity_percentage

\* C16: every match of find_matches has a percentage in [0, 100], a grid distance
\* between 0 and rings, and is_neighbor exactly when the distance is at most 1; a
\* match in the requester's cell with the requester's vector has 100.00, distance
\* 0 and is_neighbor true.
Thm_C16 ==
    Answered("get_matches") =>
        \A k \in DOMAIN fx.matches :
            LET m == fx.matches[k]
                self == users[fx.user_id]
            IN /\ m.similarity_percentage >= 0 /\ m.similarity_percentage <= 10000
               /\ m.h3_distance >= 0 /\ m.h3_distance <= fx.rings
               /\ m.h3_distance = grid_distance(self.h3_index, users[m.user].h3_index)
               /\ m.is_neighbor <=> (m.h3_distance <= 1)
               /\ (users[m.user].h3_index = self.h3_index
                       /\ users[m.user].bio_vector = self.bio_vector) =>
                      /\ m.similarity_percentage = 10000
                      /\ m.h3_distance = 0
                      /\ m.is_neighbor

Wit_C16 ==
    /\ Answered("get_matches")
    /\ Len(fx.matches) = 2
    /\ users[fx.matches[1].user].h3_index = users[fx.user_id].h3_index
    /\ users[fx.matches[1].user].bio_vector = users[fx.user_id].bio_vector
    /\ fx.matches[1].similarity_percentage = 10000 /\ fx.matches[1].is_neighbor
    /\ fx.matches[2].h3_distance = 2 /\ ~fx.matches[2].is_neighbor
    /\ fx.matches[2].similarity_percentage = 0

\* C17 as stated: the percentage find_semantic_matches reports for a candidate is
\* the one cosine_similarity_percentage gives for the same pair of vectors,
\* (cosine + 1) x 50, a value in [0, 100].
Cex_C17 ==
    Answered("find_semantic_matches") =>
        \A k \in DOMAIN fx.matches :
            /\ fx.matches[k].similarity_percentage =
                   cosine_similarity_percentage(users[fx.user_id].bio_vector,
                                                users[fx.matches[k].user].bio_vector)
            /\ fx.matches[k].similarity_percentage >= 0
            /\ fx.matches[k].similarity_percentage <= 10000

\* the candidates of the global mode whose percentage is at or above the threshold
Genuine ==
    {i \in SemanticRows(fx.user_id) :
        cosine_similarity_percentage(users[fx.user_id].bio_vector, users[i].bio_vector)
            >= fx.min_similarity}

\* C18 as stated: find_semantic_matches returns exactly the min(limit, n) nearest
\* of the n profiles that are not the requester, have a vector and have a
\* similarity percentage of at least min_similarity, nearest first.
Cex_C18 ==
    Answered("find_semantic_matches") =>
        /\ Len(fx.matches) = Min(fx.limit, Cardinality(Genuine))
        /\ Returned \subseteq Genuine
        /\ \A i \in Genuine \ Returned : \A j \in Returned :
               cosine_distance(users[i].bio_vector, users[fx.user_id].bio_vector)
                   >= cosine_distance(users[j].bio_vector, users[fx.user_id].bio_vector)
        /\ \A k \in 1..(Len(fx.matches) - 1) :
               fx.matches[k].similarity_percentage >= fx.matches[k + 1].similarity_percentage

\* C19: a proximity match request by a requester without a location, or with a
\* location but without a goal vector, is answered 200 with an empty list and
\* total_count 0, without querying the candidates and without changing a table.
Thm_C19 ==
    [][(fx'.fn = "get_matches" /\ fx.fn = "none"
            /\ (users[fx'.user_id].h3_index = None
                    \/ users[fx'.user_id].bio_vector = NoVector)) =>
         /\ fx'.status = 200
         /\ fx'.matches = <<>>
         /\ fx'.total_count = 0
         /\ ~fx'.queried
         /\ fx'.user_h3_index = IF users[fx'.user_id].h3_index = None THEN ""
                                ELSE users[fx'.user_id].h3_index
         /\ UNCHANGED <<users, posts, interactions, focus_sessions>>]_vars

Wit_C19 ==
    /\ fx.fn = "get_matches" /\ fx.status = 200 /\ fx.total_count = 0
    /\ users[fx.user_id].h3_index = None
    /\ users[fx.user_id].bio_vector # NoVector
    /\ \E i \in DOMAIN users :
           /\ users[i].h3_index # None
           /\ users[i].bio_vector = users[fx.user_id].bio_vector
    /\ \E i \in DOMAIN users :
           /\ users[i].h3_index # None
           /\ users[i].bio_vector = NoVector

\* C20 as stated: the score the ranked feed orders by is
\* similarityPercentage/100 x 0.8 + min(impact_count/10, 1.0) x 0.2 with
\* similarityPercentage = (cosine + 1) x 50, and of two items the one with the
\* larger value of that formula comes first.
Cex_C20 ==
    (fx.fn = "get_feed" /\ fx.queried) =>
        LET stated(row) ==
                cosine_similarity_percentage(posts[row.id].content_vector,
                                             users[fx.user_id].bio_vector)
                        * SimilarityWeight
                    + Min((row.impact_count * CosUnit) \div ImpactFull, CosUnit)
                        * ImpactWeight
        IN /\ \A k \in DOMAIN fx.rows : fx.rows[k].final_score = stated(fx.rows[k])
           /\ \A k \in 1..(Len(fx.rows) - 1) :
                  stated(fx.rows[k]) >= stated(fx.rows[k + 1])

\* the ids of a list of rows
RowIds(rows) == [k \in DOMAIN rows |-> rows[k].id]

\* the full rankings of the posts with a vector: highest final_score first
FullRankings ==
    {order \in Answers(RankedPosts, Cardinality(RankedPosts)) :
        \A k \in 1..(Len(order) - 1) :
            final_score(cosine_distance(posts[order[k]].content_vector,
                                        users[fx.user_id].bio_vector),
                        posts[order[k]].impact_count)
                >= final_score(cosine_distance(posts[order[k + 1]].content_vector,
                                               users[fx.user_id].bio_vector),
                               posts[order[k + 1]].impact_count)}

\* C21 as stated: the ranked feed returns the items at positions offset ..
\* offset+limit-1 of the full ranking of the posts that have a vector, strictly
\* descending by final score, and the pages of consecutive offsets are disjoint
\* and concatenate to the ranking.
Cex_C21 ==
    (fx.fn = "get_feed" /\ fx.queried) =>
        /\ \A k \in DOMAIN fx.rows : posts[fx.rows[k].id].content_vector # NoVector
        /\ \E ranking \in FullRankings :
               RowIds(fx.rows) = Page(ranking, fx.limit, fx.offset)
        /\ \A k \in 1..(Len(fx.rows) - 1) :
               fx.rows[k].final_score > fx.rows[k + 1].final_score
        /\ fx.paged =>
               /\ Range(RowIds(fx.prev)) \cap Range(RowIds(fx.rows)) = {}
               /\ \E ranking \in FullRankings :
                      RowIds(fx.prev) \o RowIds(fx.rows)
                          = Page(ranking, 2 * fx.limit, fx.offset - fx.limit)

\* C22: between two rows of the ranked feed with the same impact_count the one
\* with the strictly higher similarity has the strictly higher final_score;
\* between two rows with the same similarity the final_score does not decrease
\* with impact_count and is the same for all counts of 10 and more; the share of
\* impact_count in a final_score is between 0 and 0.2.
Thm_C22 ==
    (fx.fn = "get_feed" /\ fx.queried) =>
        /\ \A k \in DOMAIN fx.rows, l \in DOMAIN fx.rows :
               LET a == fx.rows[k]
                   b == fx.rows[l]
               IN /\ (a.impact_count = b.impact_count
                          /\ fx.posts[k].similarity_score # fx.posts[l].similarity_score
                          /\ \A x \in fx.posts[k].similarity_score,
                                y \in fx.posts[l].similarity_score : x > y)
                         => a.final_score > b.final_score
                  /\ (a.distance = b.distance /\ a.impact_count >= b.impact_count)
                         => a.final_score >= b.final_score
                  /\ (a.distance = b.distance /\ a.impact_count >= ImpactFull
                          /\ b.impact_count >= ImpactFull)
                         => a.final_score = b.final_score
        /\ \A k \in DOMAIN fx.rows :
               LET share == fx.rows[k].final_score
                                - (CosUnit - fx.rows[k].distance) * SimilarityWeight
               IN share >= 0 /\ share <= CosUnit * ImpactWeight

Wit_C22 ==
    /\ fx.fn = "get_feed" /\ fx.queried
    /\ Len(fx.rows) = 3
    /\ fx.rows[1].distance = fx.rows[3].distance
    /\ {fx.rows[1].impact_count, fx.rows[2].impact_count} = {10, 12}
    /\ fx.rows[1].final_score = fx.rows[2].final_score
    /\ fx.rows[3].impact_count = 1
    /\ fx.rows[3].final_score < fx.rows[2].final_score

\* C23: a ranked feed request by a requester without a goal vector is answered
\* 200 with an empty post list, total_count 0 and the prompt message, without
\* running the ranking query and without changing a table.
Thm_C23 ==
    [][(fx'.fn = "get_feed" /\ fx.fn = "none"
            /\ users[fx'.user_id].bio_vector = NoVector) =>
         /\ fx'.status = 200
         /\ fx'.posts = <<>>
         /\ fx'.total_count = 0
         /\ fx'.curated_by = "Set your goal to get personalized feed"
         /\ ~fx'.queried /\ fx'.rows = <<>>
         /\ UNCHANGED <<users, posts, interactions, focus_sessions>>]_vars

Wit_C23 ==
    /\ fx.fn = "get_feed" /\ fx.status = 200 /\ fx.total_count = 0
    /\ users[fx.user_id].bio_vector = NoVector
    /\ fx.curated_by = "Set your goal to get personalized feed"
    /\ fx.limit = 3 /\ fx.offset = 0
    /\ Cardinality(RankedPosts) = 3

\* the posts, latest first
LatestFirst ==
    [k \in 1..Len(posts) |->
        CHOOSE id \in DOMAIN posts :
            Cardinality({j \in DOMAIN posts : posts[j].created_at > posts[id].created_at})
                = k - 1]

\* C24: the recent listing returns the slice [offset, offset+limit) of all posts,
\* with or without a vector, latest created first, whatever the goal vectors,
\* similarities and impact counts are; it reports no similarity.
Thm_C24 ==
    fx.fn = "get_recent_feed" =>
        /\ RowIds(fx.posts) = Page(LatestFirst, fx.limit, fx.offset)
        /\ \A k \in 1..(Len(fx.posts) - 1) :
               fx.posts[k].created_at > fx.posts[k + 1].created_at
        /\ \A k \in DOMAIN fx.posts :
               /\ fx.posts[k].similarity_score = Null
               /\ fx.posts[k].impact_count = posts[fx.posts[k].id].impact_count
               /\ fx.posts[k].content = posts[fx.posts[k].id].content

Wit_C24 ==
    /\ fx.fn = "get_recent_feed" /\ fx.status = 200
    /\ fx.limit = 2 /\ fx.offset = 1 /\ Len(posts) = 3
    /\ Len(fx.posts) = 2
    /\ posts[fx.posts[1].id].content_vector = NoVector
    /\ fx.posts[1].impact_count < fx.posts[2].impact_count
    /\ posts[3].content_vector = embed_text("p2") /\ posts[3].impact_count = 0

\* C25: cosine_similarity returns exactly 0 when a vector has zero norm, and a
\* score in [-1, 1] otherwise (1 for a vector and itself, -1 for a vector and its
\* opposite); the percentage is (score + 1) x 50 to two decimals, lies in
\* [0, 100], is 0 / 50 / 100 at score -1 / 0 / 1 and so 50 for a zero-norm vector.
Thm_C25 ==
    (fx.fn = "cosine_similarity_percentage" /\ fx.done) =>
        LET s == fx.ret_similarity
            pct == fx.ret_percentage
            opposite(v) == [i \in DOMAIN v |-> -v[i]]
        IN /\ (dot(fx.vec1, fx.vec1) = 0 \/ dot(fx.vec2, fx.vec2) = 0)
                  => (s = 0 /\ pct = 5000)
           /\ s >= -CosUnit /\ s <= CosUnit
           /\ Abs(2 * pct - (s + CosUnit)) <= 1
           /\ pct >= 0 /\ pct <= 10000
           /\ s = -CosUnit => pct = 0
           /\ s = 0 => pct = 5000
           /\ s = CosUnit => pct = 10000
           /\ (fx.vec1 = fx.vec2 /\ dot(fx.vec1, fx.vec1) # 0) => s = CosUnit
           /\ (fx.vec1 = opposite(fx.vec2) /\ dot(fx.vec1, fx.vec1) # 0) => s = -CosUnit

Wit_C25 ==
    /\ fx.fn = "cosine_similarity_percentage" /\ fx.done
    /\ fx.vec1 = <<0, 0>> /\ fx.vec2 = <<3, 4>>
    /\ fx.ret_similarity = 0 /\ fx.ret_percentage = 5000

Thm_C27 ==
    [][/\ \A u \in DOMAIN users' :
              \/ users'[u].current_goal = None /\ users'[u].bio_vector = NoVector
              \/ /\ users'[u].current_goal # None
                 /\ users'[u].bio_vector = embed_text(users'[u].current_goal)
       /\ (resp'.op = "sync_goal" /\ resp'.status = 500) => users' = users
       /\ (resp'.op = "sync_goal" /\ resp'.status = 200) =>
              \E u \in DOMAIN users, goal \in SyncGoals :
                  users' = [users EXCEPT ![u].current_goal = goal,
                                         ![u].bio_vector = embed_text(goal)]]_vars

Wit_C27 ==
    /\ resp.op = "sync_goal" /\ resp.status = 500
    /\ clock = 3
    /\ Len(users) = 1
    /\ users[1].current_goal = "g2" /\ users[1].bio_vector = embed_text("g2")

\* the points of the stored feedback events that name user t as receiver: the
\* first k rows of table interactions
RECURSIVE EventPoints(_, _)
EventPoints(t, k) ==
    IF k = 0 THEN 0
    ELSE EventPoints(t, k - 1)
             + (IF /\ interactions[k].to_user_id = t
                   /\ interactions[k].type = "impact"
                   /\ interactions[k].is_constructive = Some(TRUE)
                THEN calculate_impact_points(TRUE,
                         len(CHOOSE text \in interactions[k].feedback_content : TRUE))
                ELSE 0)

\* C28 as stated: a feedback submission is all-or-nothing, so in every committed
\* state the increment of a submission is in the counter exactly when its
\* feedback event is in table interactions: every impact_score is the sum of the
\* points of the stored constructive events for that user.
Cex_C28 ==
    \A t \in DOMAIN users : users[t].impact_score = EventPoints(t, Len(interactions))

\* C29 as stated: for any interleaving of start and end requests every user has
\* at most one active focus session; a start that finds an active session is
\* rejected and creates none; a session that has ended is never active again.
Cex_C29 ==
    [][/\ \A u \in DOMAIN users :
              Cardinality({i \in DOMAIN focus_sessions' :
                              focus_sessions'[i].user_id = u
                                  /\ focus_sessions'[i].is_active}) <= 1
       /\ \A r \in Slots :
              (reqs[r].pc = "select" /\ reqs'[r].pc # "select"
                   /\ reqs[r].op = "start_focus_session"
                   /\ ActiveSessions(reqs[r].user) # {}) =>
                  /\ reqs'[r].pc = "done" /\ reqs'[r].status \in {400, 500}
                  /\ focus_sessions' = focus_sessions
       /\ \A i \in DOMAIN focus_sessions :
              ~focus_sessions[i].is_active => ~focus_sessions'[i].is_active]_vars

\* C30 as stated: for any interleaving of connects and disconnects under one user
\* id, every websocket that is connected and has not disconnected is the one
\* registered under its user id, so the reply to a message of a socket is
\* delivered to that socket, and the disconnect of an older socket leaves a
\* newer open one registered.
Cex_C30 ==
    /\ \A s \in Sockets :
           reqs[s].pc = "open" => fx.active_connections[reqs[s].user_id] = s
    /\ fx.last.from # NoSocket => fx.last.to = fx.last.from

====
